---- MODULE Spec2Model ----
(***************************************************************************)
(* Model of scripts/rootfs_tool.py: the RTL RootFS tool.  Four commands    *)
(* (check, build, sum, extract) read one file and, except check, write     *)
(* one file.  Files are sequences of bytes; every command is a straight    *)
(* line of statements whose position is kept in pc.                        *)
(***************************************************************************)
EXTENDS Integers, Sequences, FiniteSets, TLC

\* ------------------------------------------------------------------------
\* Program constants
\* ------------------------------------------------------------------------
SQUASHFS_MAGIC_BE == 1752396147          \* 0x68737173
SIZE_OF_SQFS_SUPER_BLOCK == 640
HeaderSize == 22                         \* struct.calcsize(">IIIIIH")
PrefixSize == 8                          \* fIn.read(8)

\* an odd chunk size
ChunkSizeOdd == 1024 - 1

ChunkSize == 1024                        \* fIn.read(1024)
Wrap16 == 65536                          \* checksum &= 0xFFFF

MagicError == "Doesn't appear to be a SquashFS."
BoundError == "Not an RTL Squash filesystem"
StructError == "struct.error"
Passed == "Checksum passed"
Failed == "Checksum failed"

\* ------------------------------------------------------------------------
\* Bounds of the explored inputs
\* ------------------------------------------------------------------------
MaxDelta == 3      \* file lengths are Anchor + 0..MaxDelta
MaxFill == 1       \* body byte i of an input is (i * k) % 256, k in 0..MaxFill

Anchors == {6, 20, 639, 1035, 4096}
Lengths == {a + d : a \in Anchors, d \in 0..MaxDelta}

\* ------------------------------------------------------------------------
\* struct.pack / struct.unpack, big-endian
\* ------------------------------------------------------------------------
\* the word read little-endian
unpack_H_le(b) == b[2] * 256 + b[1]

unpack_H(b) == b[1] * 256 + b[2]

unpack_I(b) == ((b[1] * 256 + b[2]) * 256 + b[3]) * 256 + b[4]

pack_H(n) == << n \div 256, n % 256 >>

\* struct.pack(">I", n) accepts 0 <= n < 2^32 and raises struct.error otherwise
fits_I(n) == n >= 0 /\ n \div Wrap16 < Wrap16

pack_I(n) == << n \div 16777216, (n \div 65536) % 256, (n \div 256) % 256, n % 256 >>

\* the magic never compared
bad_magic_never(m) == FALSE

\* magic != SQUASHFS_MAGIC_BE
bad_magic(m) == m # SQUASHFS_MAGIC_BE

\* the checksum word left out of the protected size
protected_size_short(mtime) == mtime + SIZE_OF_SQFS_SUPER_BLOCK

\* rtl_size = modification_time + SIZE_OF_SQFS_SUPER_BLOCK + 2
protected_size(mtime) == mtime + SIZE_OF_SQFS_SUPER_BLOCK + 2

\* the loop stopping one word early
word_count_less(size) == size \div 2 - 1

\* range(rtl_size // 2)
word_count(size) == size \div 2

\* the size not rounded up
even_size_asis(s) == s

\* if (squashfs_size % 2) != 0: squashfs_size += 1
even_size(s) == IF s % 2 # 0 THEN s + 1 ELSE s

\* the sum itself written in place of its complement
complement_sum(c) == c

\* (0x10000 - checksum) & 0xFFFF
complement(c) == (Wrap16 - c) % Wrap16

\* the message printed for a final checksum
report(c) == IF c # 0 THEN Failed ELSE Passed

\* f.read(n) at cursor pos (0-based): at most n bytes, fewer only at end of file
read(f, pos, n) == SubSeq(f, pos + 1, IF pos + n < Len(f) THEN pos + n ELSE Len(f))

\* ------------------------------------------------------------------------
\* The checksum loops.  Iterations lo .. hi-1 are run in order starting from
\* accumulator c; a range is run as its first half followed by its second
\* (the accumulator of the first half is evaluated before the second starts;
\* it is always below Wrap16).
\* ------------------------------------------------------------------------
RECURSIVE WordLoop(_, _, _, _)
WordLoop(f, lo, hi, c) ==
    IF hi <= lo THEN c
    ELSE IF hi = lo + 1
         THEN (c + unpack_H(SubSeq(f, 2 * lo + 1, 2 * lo + 2))) % Wrap16
         ELSE LET mid == (lo + hi) \div 2
                  c1 == WordLoop(f, lo, mid, c)
              IN  IF c1 < Wrap16 THEN WordLoop(f, mid, hi, c1) ELSE c1

\* _checksum_buffer(b, checksum): for i in range(0, len(b), 2)
_checksum_buffer(b, checksum) == WordLoop(b, 0, (Len(b) + 1) \div 2, checksum)

\* ------------------------------------------------------------------------
\* State
\* ------------------------------------------------------------------------
FileNames == {"squashfs_image", "rootfs_image", "checksum_file", "squashfs_out"}

VARIABLES
    fs,                 \* file name -> content
    op,                 \* the command running: none, check, build, sum, extract
    pc,                 \* position in the command
    fIn,                \* name of the file opened for reading
    fOut,               \* name of the output file of the command, "" for check
    pos,                \* read cursor of the input file, f.tell()
    file_size,          \* os.path.getsize of the input
    magic,
    modification_time,
    rtl_size,
    squashfs_size,
    header_prefix,
    checksum,
    console,            \* the message printed
    error,              \* the exception raised
    words,              \* words added to checksum by this command so far
    written             \* bytes written to the output by this command so far

vars == << fs, op, pc, fIn, fOut, pos, file_size, magic, modification_time,
           rtl_size, squashfs_size, header_prefix, checksum, console, error,
           words, written >>

locals == << pos, file_size, magic, modification_time, rtl_size, squashfs_size,
             header_prefix, checksum >>

\* ------------------------------------------------------------------------
\* Input files
\* ------------------------------------------------------------------------
MagicBytes == pack_I(SQUASHFS_MAGIC_BE)

\* the same four bytes in little-endian order
OtherMagicBytes == << 115, 113, 115, 104 >>

\* size fields tried with a file of length l: small ones, a huge one, and the
\* ones that put the protected range at, one byte inside and one byte past
\* the end of the file
SizeFields(l, good) ==
    IF good
    THEN {0, 1, 2147418112} \cup {s \in {l - 643, l - 642, l - 641} : s >= 0}
    ELSE {0, 2147418112}

Image(l, good, sf, k) ==
    [i \in 1..l |->
        IF i <= 4 THEN (IF good THEN MagicBytes[i] ELSE OtherMagicBytes[i])
        ELSE IF i \in 9..12 THEN pack_I(sf)[i - 8]
        ELSE (i * k) % 256]

Inputs ==
    UNION {{Image(l, good, sf, k) : sf \in SizeFields(l, good), k \in 0..MaxFill}
            : l \in Lengths, good \in BOOLEAN}

Init ==
    /\ \E img \in Inputs :
          fs = [n \in FileNames |-> IF n = "squashfs_image" THEN img ELSE << >>]
    /\ op = "none"
    /\ pc = "idle"
    /\ fIn = ""
    /\ fOut = ""
    /\ pos = 0
    /\ file_size = 0
    /\ magic = 0
    /\ modification_time = 0
    /\ rtl_size = 0
    /\ squashfs_size = 0
    /\ header_prefix = << >>
    /\ checksum = 0
    /\ console = ""
    /\ error = ""
    /\ words = 0
    /\ written = 0

\* raise: the command ends with an exception
Raise(e) ==
    /\ error' = e
    /\ pc' = "raised"

\* ------------------------------------------------------------------------
\* cmd_check
\* ------------------------------------------------------------------------
check_Open(name) ==
    /\ pc = "idle"
    /\ op' = "check"
    /\ fIn' = name
    /\ fOut' = ""
    /\ file_size' = Len(fs[name])
    /\ pc' = "check_header"
    /\ UNCHANGED << fs, pos, magic, modification_time, rtl_size, squashfs_size,
                    header_prefix, checksum, console, error, words, written >>

check_Header ==
    /\ pc = "check_header"
    /\ LET b == read(fs[fIn], 0, HeaderSize)
       IN  /\ pos' = Len(b)
           /\ IF Len(b) # HeaderSize
              THEN /\ Raise(StructError)
                   /\ UNCHANGED << magic, modification_time >>
              ELSE /\ magic' = unpack_I(SubSeq(b, 1, 4))
                   /\ modification_time' = unpack_I(SubSeq(b, 9, 12))
                   /\ IF bad_magic(unpack_I(SubSeq(b, 1, 4)))
                      THEN Raise(MagicError)
                      ELSE pc' = "check_size" /\ UNCHANGED error
    /\ UNCHANGED << fs, op, fIn, fOut, file_size, rtl_size, squashfs_size,
                    header_prefix, checksum, console, words, written >>

check_Size ==
    /\ pc = "check_size"
    /\ rtl_size' = protected_size(modification_time)
    /\ IF protected_size(modification_time) > file_size
       THEN Raise(BoundError)
       ELSE pc' = "check_sum" /\ UNCHANGED error
    /\ UNCHANGED << fs, op, fIn, fOut, pos, file_size, magic, modification_time,
                    squashfs_size, header_prefix, checksum, console, words, written >>

check_Sum ==
    /\ pc = "check_sum"
    /\ checksum' = WordLoop(fs[fIn], 0, word_count(rtl_size), 0)
    /\ words' = word_count(rtl_size)
    /\ pos' = 2 * word_count(rtl_size)
    /\ pc' = "check_report"
    /\ UNCHANGED << fs, op, fIn, fOut, file_size, magic, modification_time,
                    rtl_size, squashfs_size, header_prefix, console, error, written >>

check_Report ==
    /\ pc = "check_report"
    /\ console' = report(checksum)
    /\ pc' = "done"
    /\ UNCHANGED << fs, op, fIn, fOut, locals, error, words, written >>

\* ------------------------------------------------------------------------
\* cmd_build, and cmd_sum which is cmd_build with checksum_only set and the
\* checksum file as its output
\* ------------------------------------------------------------------------
checksum_only == op = "sum"

\* checksum_only ignored
payload_out_always(b) == b

\* if not checksum_only: fOut.write(b) -- the bytes that reach the output
payload_out(b) == IF checksum_only THEN << >> ELSE b

\* the chunk as it is summed and written
pad_chunk(b) == IF Len(b) % 2 # 0 THEN b \o << 0 >> ELSE b

build_Open(only) ==
    /\ pc = "idle"
    /\ op' = IF only THEN "sum" ELSE "build"
    /\ fIn' = "squashfs_image"
    /\ fOut' = IF only THEN "checksum_file" ELSE "rootfs_image"
    /\ LET s == Len(fs["squashfs_image"]) - SIZE_OF_SQFS_SUPER_BLOCK
       IN  squashfs_size' = even_size(s)
    /\ pc' = "build_prefix"
    /\ UNCHANGED << fs, pos, file_size, magic, modification_time, rtl_size,
                    header_prefix, checksum, console, error, words, written >>

build_Prefix ==
    /\ pc = "build_prefix"
    /\ LET b == read(fs[fIn], 0, PrefixSize)
       IN  /\ pos' = Len(b)
           /\ header_prefix' = b
           /\ IF Len(b) # PrefixSize
              THEN Raise(StructError) /\ UNCHANGED magic
              ELSE /\ magic' = unpack_I(SubSeq(b, 1, 4))
                   /\ IF bad_magic(unpack_I(SubSeq(b, 1, 4)))
                      THEN Raise(MagicError)
                      ELSE pc' = "build_size" /\ UNCHANGED error
    /\ UNCHANGED << fs, op, fIn, fOut, file_size, modification_time, rtl_size,
                    squashfs_size, checksum, console, words, written >>

build_Size ==
    /\ pc = "build_size"
    /\ pos' = pos + Len(read(fs[fIn], pos, 4))
    /\ IF fits_I(squashfs_size)
       THEN /\ header_prefix' = header_prefix \o pack_I(squashfs_size)
            /\ pc' = "build_header"
            /\ UNCHANGED error
       ELSE /\ Raise(StructError)
            /\ UNCHANGED header_prefix
    /\ UNCHANGED << fs, op, fIn, fOut, file_size, magic, modification_time,
                    rtl_size, squashfs_size, checksum, console, words, written >>

build_Header ==
    /\ pc = "build_header"
    /\ checksum' = _checksum_buffer(header_prefix, 0)
    /\ words' = (Len(header_prefix) + 1) \div 2
    /\ fs' = [fs EXCEPT ![fOut] = payload_out(header_prefix)]
    /\ written' = Len(payload_out(header_prefix))
    /\ pc' = "build_stream"
    /\ UNCHANGED << op, fIn, fOut, pos, file_size, magic, modification_time,
                    rtl_size, squashfs_size, header_prefix, console, error >>

build_Chunk ==
    /\ pc = "build_stream"
    /\ LET b == read(fs[fIn], pos, ChunkSize)
       IN  IF b = << >>
           THEN /\ pc' = "build_trailer"
                /\ UNCHANGED << fs, pos, checksum, words, written >>
           ELSE /\ pos' = pos + Len(b)
                /\ checksum' = _checksum_buffer(pad_chunk(b), checksum)
                /\ words' = words + (Len(pad_chunk(b)) + 1) \div 2
                /\ fs' = [fs EXCEPT ![fOut] = @ \o payload_out(pad_chunk(b))]
                /\ written' = written + Len(payload_out(pad_chunk(b)))
                /\ UNCHANGED pc
    /\ UNCHANGED << op, fIn, fOut, file_size, magic, modification_time, rtl_size,
                    squashfs_size, header_prefix, console, error >>

build_Trailer ==
    /\ pc = "build_trailer"
    /\ fs' = [fs EXCEPT ![fOut] = @ \o pack_H(complement(checksum))]
    /\ written' = written + 2
    /\ pc' = "done"
    /\ UNCHANGED << op, fIn, fOut, locals, console, error, words >>

\* ------------------------------------------------------------------------
\* cmd_extract
\* ------------------------------------------------------------------------
\* the bytes the loop writes in iterations lo .. hi-1: every word except the
\* one whose read leaves the cursor at the end of the file
RECURSIVE CopyLoop(_, _, _, _)
CopyLoop(f, lo, hi, size) ==
    IF hi <= lo THEN << >>
    ELSE IF hi = lo + 1
         THEN IF 2 * lo + 2 # size THEN SubSeq(f, 2 * lo + 1, 2 * lo + 2) ELSE << >>
         ELSE LET mid == (lo + hi) \div 2
              IN  CopyLoop(f, lo, mid, size) \o CopyLoop(f, mid, hi, size)

extract_Open(name) ==
    /\ pc = "idle"
    /\ op' = "extract"
    /\ fIn' = name
    /\ fOut' = "squashfs_out"
    /\ file_size' = Len(fs[name])
    /\ fs' = [fs EXCEPT !["squashfs_out"] = << >>]
    /\ pc' = "extract_header"
    /\ UNCHANGED << pos, magic, modification_time, rtl_size, squashfs_size,
                    header_prefix, checksum, console, error, words, written >>

extract_Header ==
    /\ pc = "extract_header"
    /\ LET b == read(fs[fIn], 0, HeaderSize)
       IN  /\ pos' = Len(b)
           /\ IF Len(b) # HeaderSize
              THEN /\ Raise(StructError)
                   /\ UNCHANGED << fs, magic, modification_time, written >>
              ELSE /\ magic' = unpack_I(SubSeq(b, 1, 4))
                   /\ modification_time' = unpack_I(SubSeq(b, 9, 12))
                   /\ fs' = [fs EXCEPT ![fOut] = @ \o b]
                   /\ written' = written + Len(b)
                   /\ pc' = "extract_magic"
                   /\ UNCHANGED error
    /\ UNCHANGED << op, fIn, fOut, file_size, rtl_size, squashfs_size,
                    header_prefix, checksum, console, words >>

extract_Magic ==
    /\ pc = "extract_magic"
    /\ IF bad_magic(magic)
       THEN Raise(MagicError)
       ELSE pc' = "extract_size" /\ UNCHANGED error
    /\ UNCHANGED << fs, op, fIn, fOut, locals, console, words, written >>

extract_Size ==
    /\ pc = "extract_size"
    /\ rtl_size' = protected_size(modification_time)
    /\ IF protected_size(modification_time) > file_size
       THEN Raise(BoundError)
       ELSE pc' = "extract_sum" /\ UNCHANGED error
    /\ UNCHANGED << fs, op, fIn, fOut, pos, file_size, magic, modification_time,
                    squashfs_size, header_prefix, checksum, console, words, written >>

extract_Sum ==
    /\ pc = "extract_sum"
    /\ LET out == CopyLoop(fs[fIn], 0, word_count(rtl_size), file_size)
       IN  /\ fs' = [fs EXCEPT ![fOut] = @ \o out]
           /\ written' = written + Len(out)
    /\ checksum' = WordLoop(fs[fIn], 0, word_count(rtl_size), 0)
    /\ words' = word_count(rtl_size)
    /\ pos' = 2 * word_count(rtl_size)
    /\ pc' = "extract_report"
    /\ UNCHANGED << op, fIn, fOut, file_size, magic, modification_time,
                    rtl_size, squashfs_size, header_prefix, console, error >>

extract_Report ==
    /\ pc = "extract_report"
    /\ console' = report(checksum)
    /\ pc' = "done"
    /\ UNCHANGED << fs, op, fIn, fOut, locals, error, words, written >>

\* ------------------------------------------------------------------------
\* The process exits; the files stay
\* ------------------------------------------------------------------------
Exit ==
    /\ pc \in {"done", "raised"}
    /\ op' = "none"
    /\ pc' = "idle"
    /\ fIn' = ""
    /\ fOut' = ""
    /\ pos' = 0
    /\ file_size' = 0
    /\ magic' = 0
    /\ modification_time' = 0
    /\ rtl_size' = 0
    /\ squashfs_size' = 0
    /\ header_prefix' = << >>
    /\ checksum' = 0
    /\ console' = ""
    /\ error' = ""
    /\ words' = 0
    /\ written' = 0
    /\ UNCHANGED fs

Next ==
    \/ \E name \in {"squashfs_image", "rootfs_image"} : check_Open(name)
    \/ check_Header
    \/ check_Size
    \/ check_Sum
    \/ check_Report
    \/ \E only \in BOOLEAN : build_Open(only)
    \/ build_Prefix
    \/ build_Size
    \/ build_Header
    \/ build_Chunk
    \/ build_Trailer
    \/ \E name \in {"squashfs_image", "rootfs_image"} : extract_Open(name)
    \/ extract_Header
    \/ extract_Magic
    \/ extract_Size
    \/ extract_Sum
    \/ extract_Report
    \/ Exit

Spec == Init /\ [][Next]_vars

\* ------------------------------------------------------------------------
\* Vocabulary of the properties
\* ------------------------------------------------------------------------
\* the 16-bit big-endian word-sum of an even-length byte sequence: the sum of
\* words lo .. hi-1, modulo 65536
RECURSIVE SumOfWords(_, _, _)
SumOfWords(B, lo, hi) ==
    IF hi <= lo THEN 0
    ELSE IF hi = lo + 1 THEN B[2 * lo + 1] * 256 + B[2 * lo + 2]
         ELSE LET mid == (lo + hi) \div 2
              IN  (SumOfWords(B, lo, mid) + SumOfWords(B, mid, hi)) % 65536

WordSum(B) == SumOfWords(B, 0, Len(B) \div 2)

\* B zero-padded once at its end to even length
PadOnce(B) == IF Len(B) % 2 = 1 THEN B \o << 0 >> ELSE B

BE32(B, at) == ((B[at] * 256 + B[at + 1]) * 256 + B[at + 2]) * 256 + B[at + 3]

LastTwo(B) == SubSeq(B, Len(B) - 1, Len(B))

Payload == fs["squashfs_image"]
PayloadLen == Len(Payload)

\* the input being read has its first four bytes, and they are the magic
HasMagic(B) == Len(B) >= 4 /\ SubSeq(B, 1, 4) = << 104, 115, 113, 115 >>
HasOtherMagic(B) == Len(B) >= 4 /\ SubSeq(B, 1, 4) # << 104, 115, 113, 115 >>

\* the size field of the input exists and puts the protected range past the end
PastEnd(B) == Len(B) >= 12 /\ BE32(B, 9) + 642 > Len(B)

Verifying == op \in {"check", "extract"}
Building == op \in {"build", "sum"}

\* (file length - 640) rounded up to even
RoundedSize == (PayloadLen - 640) + ((PayloadLen - 640) % 2)

\* the payload with its size field rewritten
Patched ==
    SubSeq(Payload, 1, 8)
    \o << RoundedSize \div 16777216, (RoundedSize \div 65536) % 256,
          (RoundedSize \div 256) % 256, RoundedSize % 256 >>
    \o SubSeq(Payload, 13, PayloadLen)

C2_ExtractLength ==
    (op = "extract" /\ pc = "done") =>
        Len(fs["squashfs_out"]) = (BE32(fs[fIn], 9) + 640 + 2) - 2

\* ------------------------------------------------------------------------
\* C3  Bound rejection.  As claimed: whenever size_field + 642 > file_size,
\* check and extract end with "Not an RTL Squash filesystem", no word has been
\* added to the checksum and no pass/fail message is printed.
\* ------------------------------------------------------------------------
C3_Original ==
    (Verifying /\ PastEnd(fs[fIn])) =>
        /\ words = 0
        /\ console = ""
        /\ pc \notin {"check_sum", "check_report", "extract_sum", "extract_report", "done"}
        /\ pc = "raised" => error = BoundError

\* C3 as amended: the same for a file that holds the whole 22-byte header and
\* has the right magic; a wrong magic or a shorter file ends the command with
\* the magic error or a struct error, also before any word is summed.
C3_BoundRejection ==
    (Verifying /\ PastEnd(fs[fIn])) =>
        /\ words = 0
        /\ console = ""
        /\ pc \notin {"check_sum", "check_report", "extract_sum", "extract_report", "done"}
        /\ pc = "raised" =>
              error = (IF Len(fs[fIn]) < 22 THEN StructError
                       ELSE IF HasMagic(fs[fIn]) THEN BoundError ELSE MagicError)

C3_Witness ==
    /\ Verifying /\ pc = "raised" /\ error = BoundError
    /\ BE32(fs[fIn], 9) + 642 = Len(fs[fIn]) + 1

\* ------------------------------------------------------------------------
\* C4  Magic rejection.  As claimed: a file whose first 4 bytes are not the
\* magic makes every command end with "Doesn't appear to be a SquashFS.", and
\* the command never reaches the pass/fail report or the checksum-word write.
\* ------------------------------------------------------------------------
C4_Original ==
    (op # "none" /\ HasOtherMagic(fs[fIn])) =>
        /\ console = ""
        /\ pc \notin {"check_report", "extract_report", "build_trailer", "done"}
        /\ pc = "raised" => error = MagicError

\* C4 as amended: the same for a file that holds all the bytes the command
\* unpacks first (22 for check and extract, 8 for build and sum); a shorter
\* file ends the command with a struct error instead.
C4_MagicRejection ==
    (op # "none" /\ HasOtherMagic(fs[fIn])) =>
        /\ console = ""
        /\ pc \notin {"check_report", "extract_report", "build_trailer", "done"}
        /\ pc = "raised" =>
              error = (IF Len(fs[fIn]) < (IF Verifying THEN 22 ELSE 8)
                       THEN StructError ELSE MagicError)

C4_Witness ==
    /\ op = "sum" /\ pc = "raised" /\ error = MagicError
    /\ HasOtherMagic(fs[fIn])

\* ------------------------------------------------------------------------
\* C5  The 4096-byte scenario: all zero but the magic at offset 0.  As
\* claimed: protected_size 642, checksum 0, "Checksum passed".
\* ------------------------------------------------------------------------
Scenario4096 ==
    /\ op = "check" /\ pc = "done"
    /\ fs[fIn] = [i \in 1..4096 |->
                    IF i = 1 THEN 104 ELSE IF i = 2 THEN 115
                    ELSE IF i = 3 THEN 113 ELSE IF i = 4 THEN 115 ELSE 0]

C5_Original ==
    Scenario4096 => (rtl_size = 642 /\ words = 321 /\ checksum = 0 /\ console = Passed)

\* C5 as amended: protected_size 642, but the magic words 0x6873 + 0x7173 are
\* in the summed range, so the checksum is 0xD9E6 and check prints
\* "Checksum failed".
C5_Scenario ==
    Scenario4096 => (rtl_size = 642 /\ words = 321 /\ checksum = 55782 /\ console = Failed)

C5_Witness == Scenario4096

\* ------------------------------------------------------------------------
\* C6  sum writes exactly the 2 bytes that end the file build writes for the
\* same input, and copies no payload byte.
\* ------------------------------------------------------------------------
C6_SumIsBuildTrailer ==
    /\ (op = "sum" /\ pc = "done") =>
          (Len(fs["checksum_file"]) = 2 /\ written = 2)
    /\ (Building /\ pc = "done" /\ fs["checksum_file"] # << >> /\ fs["rootfs_image"] # << >>) =>
          fs["checksum_file"] = LastTwo(fs["rootfs_image"])
    \* what build accepted, sum accepts
    /\ (op = "sum" /\ fs["rootfs_image"] # << >>) => pc # "raised"

C6_Witness ==
    /\ op = "sum" /\ pc = "done"
    /\ fs["rootfs_image"] # << >>
    /\ fs["checksum_file"] # << 0, 0 >>
    /\ PayloadLen > 1036

\* ------------------------------------------------------------------------
\* C7  No byte reaches the output file of build, sum or extract before the
\* magic (and for extract the bound) has been validated; a command that ends
\* in a format error has written nothing.
\* ------------------------------------------------------------------------
C7_NoOutputBeforeValidation ==
    /\ (Building /\ written > 0) => pc \in {"build_stream", "build_trailer", "done"}
    /\ (op = "extract" /\ written > 0) => pc \in {"extract_sum", "extract_report", "done"}
    /\ (pc = "raised" /\ error \in {MagicError, BoundError}) => written = 0

\* ------------------------------------------------------------------------
\* C8  Verify range.  As claimed: check and extract sum exactly
\* protected_size = size_field + 642 bytes from offset 0, for an even or odd
\* size field, and print "Checksum passed" iff the sum of that range is 0.
\* ------------------------------------------------------------------------
C8_Original ==
    (Verifying /\ pc = "done") =>
        /\ rtl_size = BE32(fs[fIn], 9) + 642
        /\ 2 * words = rtl_size
        /\ console \in {Passed, Failed}
        /\ console = Passed <=> WordSum(PadOnce(SubSeq(fs[fIn], 1, rtl_size))) = 0

\* C8 as amended: the range summed is the protected range cut down to a whole
\* number of words: all of it for an even size field, all but its last byte
\* for an odd one; "Checksum passed" iff the sum of that range is 0.
C8_VerifyRange ==
    (Verifying /\ pc = "done") =>
        /\ rtl_size = BE32(fs[fIn], 9) + 642
        /\ 2 * words = rtl_size - (rtl_size % 2)
        /\ console \in {Passed, Failed}
        /\ console = Passed <=>
              WordSum(SubSeq(fs[fIn], 1, rtl_size - (rtl_size % 2))) = 0

C8_Witness ==
    /\ op = "extract" /\ pc = "done" /\ console = Passed
    /\ rtl_size % 2 = 0
    /\ rtl_size > 2048

\* ------------------------------------------------------------------------
\* C9  Layout of build's output for an input of length L >= 640 with the
\* magic: input bytes 0-7, the size (L - 640) rounded up to even as a
\* big-endian 32-bit value, input bytes 12 .. L-1, one zero byte if L is odd,
\* the checksum word; the length is the protected size of its own size field.
\* ------------------------------------------------------------------------
C9_BuildLayout ==
    (op = "build" /\ HasMagic(Payload) /\ PayloadLen >= 640) =>
        /\ pc # "raised"
        /\ pc = "done" =>
              LET out == fs["rootfs_image"]
                  L == PayloadLen
              IN  /\ Len(out) = L + (L % 2) + 2
                  /\ SubSeq(out, 1, 8) = SubSeq(Payload, 1, 8)
                  /\ BE32(out, 9) = RoundedSize
                  /\ SubSeq(out, 13, L) = SubSeq(Payload, 13, L)
                  /\ (L % 2 = 1) => out[L + 1] = 0
                  /\ WordSum(out) = 0
                  /\ Len(out) = BE32(out, 9) + 640 + 2

C9_Witness ==
    /\ op = "build" /\ pc = "done"
    /\ PayloadLen % 2 = 1 /\ PayloadLen > 1036
    /\ BE32(Payload, 9) # BE32(fs["rootfs_image"], 9)
    /\ Payload[PayloadLen] # 0

\* ------------------------------------------------------------------------
\* C10  Streaming in build and sum: while chunks are read, what has been
\* summed and written is a prefix of the patched payload with no byte
\* inserted; after the last chunk the accumulator is the word-sum of the
\* patched payload zero-padded once at its end, and that is what build wrote.
\* ------------------------------------------------------------------------
C10_Streaming ==
    /\ (Building /\ pc = "build_stream" /\ pos < PayloadLen) =>
          /\ checksum = WordSum(SubSeq(Patched, 1, pos))
          /\ 2 * words = pos
          /\ op = "build" => fs["rootfs_image"] = SubSeq(Patched, 1, pos)
    /\ (Building /\ pc = "build_trailer") =>
          /\ checksum = WordSum(PadOnce(Patched))
          /\ 2 * words = Len(PadOnce(Patched))
          /\ op = "build" => fs["rootfs_image"] = PadOnce(Patched)

C10_Witness ==
    /\ op = "build" /\ pc = "build_trailer"
    /\ PayloadLen % 2 = 1 /\ PayloadLen > 4096
    /\ checksum # 0
====
